---- MODULE Spec2Model ----
(***************************************************************************)
(* A model of mpmath/calculus.py: the PSLQ integer-relation search (pslq), *)
(* its consumers findpoly and identify, and the functions that raise the   *)
(* ambient working precision mp.prec inside try/finally.                   *)
(*                                                                         *)
(* pslq works on Python integers of unbounded size, at a working precision *)
(* of mp.prec + 60 >= 113 bits.  The model checker's integers have 32      *)
(* bits, so the model runs the same fixed-point arithmetic at a working    *)
(* precision of Prec bits; the tolerance eps is taken as the caller's      *)
(* argument (already in fixed point).  Python's // and >> round towards    *)
(* minus infinity, as FloorDiv and Shr do here.                            *)
(***************************************************************************)
EXTENDS Integers, Sequences, FiniteSets, TLC

VARIABLES
  pc,        \* pslq: the position of the run
  n,         \* pslq: len(x)
  eps,       \* pslq: the tolerance, in fixed point
  x,         \* pslq: the input vector, in fixed point (x[1..n])
  y,         \* pslq: y[1..n]
  s,         \* pslq: the partial norms s[1..n]
  H, A, B,   \* pslq: the n x n matrices, keyed by <<i, j>>
  rep,       \* pslq: REP, the main-loop counter
  m,         \* pslq: the pivot of the current iteration
  ri, rj,    \* pslq: i and j of the reduction loops
  t,         \* pslq: the last multiplier t of a reduction step
  exact,     \* pslq: no 't*A >> prec' or 't*B >> prec' has dropped a bit
  zeroPivot, \* pslq: how often a reduction step met H[j,j] = 0
  result,    \* pslq: the returned value (None or a vector)
  err,       \* pslq: the exception that ended the run, if any
  raisedAt,  \* pslq: the position at which that exception was raised
  mp_prec,   \* mp.prec, the ambient working precision
  userPrec,  \* the precision the caller works at
  stack,     \* the calls in progress, the innermost last
  last,      \* the call that ended last: its function, mp.prec at its entry
             \* and at its exit, and how it ended
  id_pc,         \* identify: the position of the call
  id_x,          \* identify: x
  id_given,      \* identify: the catalog the caller supplied, as (value, name)
  id_full,       \* identify: full
  id_maxcoeff,   \* identify: maxcoeff
  id_quadratics, \* identify: quadratics
  id_hits,       \* identify: where the relation search may find relations
  id_negative,   \* identify: the call is the one made for a negative x
  id_constants,  \* identify: constants, from line 979 on
  id_ti, id_ci,  \* identify: the places of the loops over transforms, constants
  id_solutions,  \* identify: solutions
  id_origin,     \* identify: for each solution, the path and the relation used
  id_refused,    \* identify: a relation was turned down for a large coefficient
  id_result,     \* identify: the returned value
  id_err,        \* identify: the exception that ended the call, if any
  id_did,        \* identify: what the last step did: a relation search on a
                 \* transformed value ("search"), the search for a product
                 \* formula ("product"), or neither
  fp_pc,         \* findpoly: the position of the call
  fp_x,          \* findpoly: x
  fp_n,          \* findpoly: n
  fp_i,          \* findpoly: i of the loop
  fp_calls,      \* findpoly: the calls of pslq so far, and what they returned
  fp_result,     \* findpoly: the returned value
  fg_pc,         \* fracgcd: the position of the call
  fg_p, fg_q,    \* fracgcd: the arguments p and q
  fg_out         \* fracgcd: the returned value

pslqVars == <<pc, n, eps, x, y, s, H, A, B, rep, m, ri, rj, t, exact,
              zeroPivot, result, err, raisedAt>>

precVars == <<mp_prec, userPrec, stack, last>>

idVars == <<id_pc, id_x, id_given, id_full, id_maxcoeff, id_quadratics, id_hits,
            id_negative, id_constants, id_ti, id_ci, id_solutions, id_origin,
            id_refused, id_result, id_err, id_did>>

fpVars == <<fp_pc, fp_x, fp_n, fp_i, fp_calls, fp_result>>

fgVars == <<fg_pc, fg_p, fg_q, fg_out>>

vars == <<pslqVars, precVars, idVars, fpVars, fgVars>>

-----------------------------------------------------------------------------
(* Bounds of the model *)

\* the working precision 'prec' of a run, in bits (the code's is mp.prec + 60)
Prec == 4
\* the longest input vector
MaxN == 3

\* the fixed-point values an input entry is drawn from
InputVals == {-20, -4, 0, 12, 32}
\* the tolerances a caller passes (fixed point)
EpsVals == {1, 2}

-----------------------------------------------------------------------------
(* Python values *)

\* None, and a value that is not None
None == [isNone |-> TRUE]
Some(v) == [isNone |-> FALSE, val |-> v]

\* no exception
NoError == "none"

Abs(a) == IF a < 0 THEN -a ELSE a

Pow2(k) == 2 ^ k

\* a // b of Python, b # 0: the quotient rounded towards minus infinity
FloorDiv(a, b) == IF b > 0 THEN a \div b ELSE (-a) \div (-b)

\* a >> k and a << k of Python
Shr(a, k) == a \div Pow2(k)
Shl(a, k) == a * Pow2(k)

-----------------------------------------------------------------------------
(* Fixed-point helpers *)

\* (mutant) the quotient is used as it is, without the rounding
round_fixedNotRounded(v, prec) == v

\* round to nearest integer, kept in fixed point
round_fixed(v, prec) == Shl(Shr(v + Pow2(prec - 1), prec), prec)

\* the integer square root of v >= 0: the largest r with r*r <= v
ISqrt(v) == CHOOSE r \in 0..v : r * r <= v /\ (r + 1) * (r + 1) > v

\* the square root of a fixed-point number, in fixed point
sqrt_fixed(v, prec) == ISqrt(Shl(v, prec))

-----------------------------------------------------------------------------
(* pslq: program constants *)

\* the main loop runs 'for REP in range(100)'
MaxRep == 100
\* a candidate is returned only if every |vec[j]| < 10**6
SanityBound == 1000000

Idx(nn) == (1..nn) \X (1..nn)

\* (mutant) A and B start as zero matrices
IdentityFixedZero(nn) == [p \in Idx(nn) |-> 0]

\* A[i,j] = B[i,j] = (i==j) << prec
IdentityFixed(nn) == [p \in Idx(nn) |-> IF p[1] = p[2] THEN Shl(1, Prec) ELSE 0]

-----------------------------------------------------------------------------
(* pslq: initialisation, steps 2 and 3 *)

RECURSIVE SumSq(_, _, _)
\* t += (x[j]**2 >> prec) for j in k..n
SumSq(xs, k, nn) ==
  IF k > nn THEN 0 ELSE Shr(xs[k] * xs[k], Prec) + SumSq(xs, k + 1, nn)

\* s[k] = sqrt_fixed(t, prec), before the normalisation
RawNorms(xs, nn) == [k \in 1..nn |-> sqrt_fixed(SumSq(xs, k, nn), Prec)]

\* s[k] = (s[k] << prec) // t, with t = s[1]
Norms(xs, nn) ==
  LET s0 == RawNorms(xs, nn)
  IN  [k \in 1..nn |-> FloorDiv(Shl(s0[k], Prec), s0[1])]

\* y[k] = (x[k] << prec) // t, with t = s[1]
UnitVector(xs, nn) ==
  LET s0 == RawNorms(xs, nn)
  IN  [k \in 1..nn |-> FloorDiv(Shl(xs[k], Prec), s0[1])]

\* whether the normalisation of step 2 divides by zero: t = s[1] = 0
NormIsZero(xs, nn) == RawNorms(xs, nn)[1] = 0

\* whether one of the divisions of step 3 divides by zero, sn being the
\* normalised s
InitDividesByZero(sn, nn) ==
  \/ \E i \in 1..(nn - 1) : sn[i] = 0
  \/ \E i \in 2..nn : \E j \in 1..(i - 1) : sn[j] * sn[j + 1] = 0

\* the matrix H of step 3, from the normalised s and y
InitialH(sn, yn, nn) ==
  [p \in Idx(nn) |->
     IF p[1] = p[2] /\ p[1] <= nn - 1
       THEN FloorDiv(Shl(sn[p[1] + 1], Prec), sn[p[1]])
     ELSE IF p[2] < p[1]
       THEN FloorDiv(Shl((-yn[p[1]]) * yn[p[2]], Prec), sn[p[2]] * sn[p[2] + 1])
     ELSE 0]

-----------------------------------------------------------------------------
(* pslq: one reduction step, shared by step 4 of the initialisation and    *)
(* step 4 of the main loop                                                 *)

\* t = round_fixed((H[i,j] << prec)//H[j,j], prec)
Multiplier(h, i, j) == round_fixed(FloorDiv(Shl(h[i, j], Prec), h[j, j]), Prec)

\* y[j] = y[j] + (t*y[i] >> prec)
ReduceY(yy, tt, i, j) == [yy EXCEPT ![j] = yy[j] + Shr(tt * yy[i], Prec)]

\* H[i,k] = H[i,k] - (t*H[j,k] >> prec) for k in 1..j
ReduceH(h, tt, i, j) ==
  [p \in DOMAIN h |->
     IF p[1] = i /\ p[2] <= j THEN h[p] - Shr(tt * h[j, p[2]], Prec) ELSE h[p]]

\* A[i,k] = A[i,k] - (t*A[j,k] >> prec) for k in 1..n
ReduceA(a, tt, i, j) ==
  [p \in DOMAIN a |->
     IF p[1] = i THEN a[p] - Shr(tt * a[j, p[2]], Prec) ELSE a[p]]

\* B[k,j] = B[k,j] + (t*B[k,i] >> prec) for k in 1..n
ReduceB(b, tt, i, j) ==
  [p \in DOMAIN b |->
     IF p[2] = j THEN b[p] + Shr(tt * b[p[1], i], Prec) ELSE b[p]]

\* no shifted product of the step drops a nonzero bit
StepIsExact(a, b, tt, i, j, nn) ==
  \A k \in 1..nn : /\ (tt * a[j, k]) % Pow2(Prec) = 0
                   /\ (tt * b[k, i]) % Pow2(Prec) = 0

-----------------------------------------------------------------------------
(* pslq: the run *)

\* pslq reads mp.prec (line 680) and assigns only its local 'prec' (line 690)
PslqOnly == UNCHANGED <<precVars, idVars, fpVars, fgVars>>

\* no call of a precision-changing function is in progress
NoCalls ==
  /\ mp_prec = 53
  /\ userPrec = 53
  /\ stack = << >>
  /\ last = [fn |-> "none"]

\* identify has not been called
NoIdentify ==
  /\ id_pc = "start" /\ id_x = 0 /\ id_given = << >>
  /\ id_full = FALSE /\ id_maxcoeff = 1 /\ id_quadratics = FALSE
  /\ id_hits = {} /\ id_negative = FALSE /\ id_constants = << >>
  /\ id_ti = 0 /\ id_ci = 0
  /\ id_solutions = << >> /\ id_origin = << >> /\ id_refused = FALSE
  /\ id_result = None /\ id_err = NoError /\ id_did = "none"

\* findpoly has not been called
NoFindpoly ==
  /\ fp_pc = "start" /\ fp_x = 0 /\ fp_n = 0 /\ fp_i = 0
  /\ fp_calls = << >> /\ fp_result = None

\* fracgcd has not been called
NoFracgcd == fg_pc = "idle" /\ fg_p = 0 /\ fg_q = 1 /\ fg_out = None

NoMatrix == [p \in {} |-> 0]
NoVector == [k \in {} |-> 0]

InitPslq ==
  /\ pc = "init"
  /\ n \in 0..MaxN
  /\ x \in [1..n -> InputVals]
  /\ eps \in EpsVals
  /\ y = NoVector /\ s = NoVector
  /\ H = NoMatrix /\ A = NoMatrix /\ B = NoMatrix
  /\ rep = 0 /\ m = 0 /\ ri = 0 /\ rj = 0 /\ t = 0
  /\ exact = TRUE /\ zeroPivot = 0
  /\ result = None /\ err = NoError /\ raisedAt = NoError

\* an exception leaves pslq: nothing in pslq catches it
Raise(e) ==
  /\ pc' = "raised"
  /\ err' = e
  /\ raisedAt' = pc

NoRaise == UNCHANGED <<err, raisedAt>>

\* (mutant) an empty vector makes pslq return None
EmptyInputSilent ==
  /\ pc' = "done"
  /\ NoRaise

\* line 679, 'assert n >= 1', for n = 0; with assertions stripped (python -O)
\* the run goes on to line 710, where s[1] is out of range
EmptyInput == \E e \in {"AssertionError", "IndexError"} : Raise(e)

\* lines 678-722: the assertion on n, the identity matrices, s, y and H
Initialise ==
  /\ PslqOnly
  /\ pc = "init"
  /\ IF n < 1
       THEN /\ EmptyInput
            /\ UNCHANGED <<y, s, H, A, B, ri, rj>>
     ELSE IF NormIsZero(x, n)
       THEN /\ Raise("ZeroDivisionError")
            /\ A' = IdentityFixed(n) /\ B' = IdentityFixed(n)
            /\ UNCHANGED <<y, s, H, ri, rj>>
     ELSE \E sn \in {Norms(x, n)}, yn \in {UnitVector(x, n)} :
            IF InitDividesByZero(sn, n)
              THEN /\ Raise("ZeroDivisionError")
                   /\ A' = IdentityFixed(n) /\ B' = IdentityFixed(n)
                   /\ UNCHANGED <<y, s, H, ri, rj>>
            ELSE /\ A' = IdentityFixed(n) /\ B' = IdentityFixed(n)
                 /\ s' = sn
                 /\ y' = yn
                 /\ H' = InitialH(sn, yn, n)
                 /\ IF n >= 2 THEN pc' = "prereduce" /\ ri' = 2 /\ rj' = 1
                              ELSE pc' = "pivot" /\ ri' = 0 /\ rj' = 0
                 /\ NoRaise
  /\ UNCHANGED <<n, eps, x, rep, m, t, exact, zeroPivot, result>>

\* lines 724-733: one pass of the inner loop of the initial reduction
PreReduceStep ==
  /\ PslqOnly
  /\ pc = "prereduce"
  /\ IF H[rj, rj] = 0
       THEN /\ Raise("ZeroDivisionError")
            /\ UNCHANGED <<y, H, A, B, ri, rj, t, exact>>
     ELSE LET tt == Multiplier(H, ri, rj)
          IN  /\ t' = tt
              /\ y' = ReduceY(y, tt, ri, rj)
              /\ H' = ReduceH(H, tt, ri, rj)
              /\ A' = ReduceA(A, tt, ri, rj)
              /\ B' = ReduceB(B, tt, ri, rj)
              /\ exact' = (exact /\ StepIsExact(A, B, tt, ri, rj, n))
              /\ IF rj > 1 THEN ri' = ri /\ rj' = rj - 1 /\ pc' = pc
                 ELSE IF ri < n THEN ri' = ri + 1 /\ rj' = ri /\ pc' = pc
                 ELSE ri' = 0 /\ rj' = 0 /\ pc' = "pivot"
              /\ NoRaise
  /\ UNCHANGED <<n, eps, x, s, rep, m, zeroPivot, result>>

-----------------------------------------------------------------------------
(* pslq: the main loop *)

\* g = sqrt_fixed((4<<prec)//3, prec)
Gamma == sqrt_fixed(FloorDiv(Shl(4, Prec), 3), Prec)

\* sz = (g**i * abs(H[i,i])) >> (prec*(i-1))
PivotSize(h, i) == Shr((Gamma ^ i) * Abs(h[i, i]), Prec * (i - 1))

\* step 1: the first i in 1..n-1 of largest sz
PivotIndex(h, nn) ==
  CHOOSE i \in 1..(nn - 1) :
    /\ \A k \in 1..(nn - 1) : PivotSize(h, k) <= PivotSize(h, i)
    /\ \A k \in 1..(i - 1) : PivotSize(h, k) < PivotSize(h, i)

SwapIndex(k, mm) == IF k = mm THEN mm + 1 ELSE IF k = mm + 1 THEN mm ELSE k

\* y[m], y[m+1] = y[m+1], y[m]
SwapEntries(yy, mm) == [k \in DOMAIN yy |-> yy[SwapIndex(k, mm)]]

\* rows m and m+1 exchanged (H and A)
SwapRows(a, mm) == [p \in DOMAIN a |-> a[SwapIndex(p[1], mm), p[2]]]

\* columns m and m+1 exchanged (B)
SwapColumns(b, mm) == [p \in DOMAIN b |-> b[p[1], SwapIndex(p[2], mm)]]

\* t0 = sqrt_fixed((H[m,m]**2 + H[m,m+1]**2)>>prec, prec)
RotationNorm(h, mm) ==
  sqrt_fixed(Shr(h[mm, mm] * h[mm, mm] + h[mm, mm + 1] * h[mm, mm + 1], Prec), Prec)

\* step 3: the rotation of columns m and m+1 in rows m..n
Rotated(h, mm) ==
  LET t0 == RotationNorm(h, mm)
      t1 == FloorDiv(Shl(h[mm, mm], Prec), t0)
      t2 == FloorDiv(Shl(h[mm, mm + 1], Prec), t0)
  IN  [p \in DOMAIN h |->
         IF p[1] >= mm /\ p[2] = mm
           THEN Shr(t1 * h[p[1], mm] + t2 * h[p[1], mm + 1], Prec)
         ELSE IF p[1] >= mm /\ p[2] = mm + 1
           THEN Shr((-t2) * h[p[1], mm] + t1 * h[p[1], mm + 1], Prec)
         ELSE h[p]]

Min(a, b) == IF a < b THEN a ELSE b

\* (mutant) the loop runs once more
LoopRunsOnceMore(r) == r <= MaxRep

\* line 735: for REP in range(100)
LoopRuns(r) == r < MaxRep

\* lines 737-750: step 1 (the pivot) and step 2 (the exchanges)
SelectPivotAndSwap ==
  /\ PslqOnly
  /\ pc = "pivot"
  /\ LoopRuns(rep)
  /\ IF n < 2
       \* m stays -1 and H[m+1,i] = H[0,1] is no key of H
       THEN /\ Raise("KeyError")
            /\ m' = -1
            /\ UNCHANGED <<y, H, A, B>>
     ELSE LET mm == PivotIndex(H, n)
          IN  /\ m' = mm
              /\ y' = SwapEntries(y, mm)
              /\ H' = SwapRows(H, mm)
              /\ A' = SwapRows(A, mm)
              /\ B' = SwapColumns(B, mm)
              /\ pc' = "rotate"
              /\ NoRaise
  /\ UNCHANGED <<n, eps, x, s, rep, ri, rj, t, exact, zeroPivot, result>>

\* the first (i, j) of step 4: i = m+1, j = min(i-1, m+1)
EnterReduce ==
  /\ pc' = "reduce"
  /\ ri' = m + 1
  /\ rj' = Min(m, m + 1)

\* lines 752-763, t0 # 0: the rotation
Rotate ==
  /\ PslqOnly
  /\ pc = "rotate"
  /\ m <= n - 2
  /\ RotationNorm(H, m) # 0
  /\ H' = Rotated(H, m)
  /\ EnterReduce
  /\ UNCHANGED <<n, eps, x, y, s, A, B, rep, m, t, exact, zeroPivot, result, err, raisedAt>>

\* (mutant) a zero norm does not end the run: the rotation is left out
RotateDegenerateGoesOn ==
  /\ PslqOnly
  /\ pc = "rotate"
  /\ m <= n - 2
  /\ RotationNorm(H, m) = 0
  /\ EnterReduce
  /\ UNCHANGED <<n, eps, x, y, s, H, A, B, rep, m, t, exact, zeroPivot, result,
                 err, raisedAt>>

\* lines 755-756 and 783: 'if not t0: break', then 'return None'
RotateDegenerate ==
  /\ PslqOnly
  /\ pc = "rotate"
  /\ m <= n - 2
  /\ RotationNorm(H, m) = 0
  /\ pc' = "done"
  /\ result' = None
  /\ UNCHANGED <<n, eps, x, y, s, H, A, B, rep, m, ri, rj, t, exact, zeroPivot, err, raisedAt>>

\* line 752, m = n-1: no rotation
SkipRotate ==
  /\ PslqOnly
  /\ pc = "rotate"
  /\ m > n - 2
  /\ EnterReduce
  /\ UNCHANGED <<n, eps, x, y, s, H, A, B, rep, m, t, exact, zeroPivot, result, err, raisedAt>>

\* the (i, j) after the inner loop over j has ended for row i
NextRow ==
  IF ri < n THEN /\ ri' = ri + 1
                 /\ rj' = Min(ri, m + 1)
                 /\ pc' = pc
  ELSE /\ ri' = 0
       /\ rj' = 0
       /\ pc' = "check"

\* (mutant) the ZeroDivisionError of the main loop is not caught
ZeroPivotRaises ==
  /\ Raise("ZeroDivisionError")
  /\ UNCHANGED <<y, H, A, B, t, exact, zeroPivot, ri, rj>>

\* lines 767-771: the division by H[j,j] = 0 raises ZeroDivisionError, which
\* is caught: 'break' ends the loop over j for this row
ZeroPivotBreak ==
  /\ zeroPivot' = zeroPivot + 1
  /\ NextRow
  /\ NoRaise
  /\ UNCHANGED <<y, H, A, B, t, exact>>

\* lines 765-777: one pass of the inner loop of step 4
ReduceStep ==
  /\ PslqOnly
  /\ pc = "reduce"
  /\ IF H[rj, rj] = 0
       THEN ZeroPivotBreak
     ELSE LET tt == Multiplier(H, ri, rj)
          IN  /\ t' = tt
              /\ y' = ReduceY(y, tt, ri, rj)
              /\ H' = ReduceH(H, tt, ri, rj)
              /\ A' = ReduceA(A, tt, ri, rj)
              /\ B' = ReduceB(B, tt, ri, rj)
              /\ exact' = (exact /\ StepIsExact(A, B, tt, ri, rj, n))
              /\ zeroPivot' = zeroPivot
              /\ IF rj > 1 THEN ri' = ri /\ rj' = rj - 1 /\ pc' = pc
                 ELSE NextRow
              /\ NoRaise
  /\ UNCHANGED <<n, eps, x, s, rep, m, result>>

\* (mutant) the row i of B is taken instead of its column i
CandidateFromRow(b, i, nn) == [j \in 1..nn |-> Shr(round_fixed(b[i, j], Prec), Prec)]

\* vec = [int(round_fixed(B[j,i], prec) >> prec) for j in range(1,n+1)]
Candidate(b, i, nn) == [j \in 1..nn |-> Shr(round_fixed(b[j, i], Prec), Prec)]

\* max(abs(v) for v in vec) < 10**6
Sane(vec) == \A j \in DOMAIN vec : Abs(vec[j]) < SanityBound

\* abs(y[i]) < eps
Small(yy, i, e) == Abs(yy[i]) < e

\* the coordinates whose candidate lines 779-782 would return
Accepted(yy, b, e, nn) ==
  {i \in 1..nn : Small(yy, i, e) /\ Sane(Candidate(b, i, nn))}

\* lines 778-782: the first small coordinate with a sane candidate returns it
ReturnRelation ==
  /\ PslqOnly
  /\ pc = "check"
  /\ Accepted(y, B, eps, n) # {}
  /\ LET i == CHOOSE k \in Accepted(y, B, eps, n) :
                \A l \in Accepted(y, B, eps, n) : k <= l
     IN  /\ result' = Some(Candidate(B, i, n))
         /\ ri' = i
  /\ pc' = "done"
  /\ UNCHANGED <<n, eps, x, y, s, H, A, B, rep, m, rj, t, exact, zeroPivot, err, raisedAt>>

\* lines 778-782 with no return: the next REP
NextIteration ==
  /\ PslqOnly
  /\ pc = "check"
  /\ Accepted(y, B, eps, n) = {}
  /\ rep' = rep + 1
  /\ pc' = "pivot"
  /\ UNCHANGED <<n, eps, x, y, s, H, A, B, m, ri, rj, t, exact, zeroPivot,
                 result, err, raisedAt>>

\* line 783: the loop has run range(100) out
ReturnNone ==
  /\ PslqOnly
  /\ pc = "pivot"
  /\ ~LoopRuns(rep)
  /\ pc' = "done"
  /\ result' = None
  /\ UNCHANGED <<n, eps, x, y, s, H, A, B, rep, m, ri, rj, t, exact, zeroPivot, err, raisedAt>>

Init == InitPslq /\ NoCalls /\ NoIdentify /\ NoFindpoly /\ NoFracgcd

Next ==
  \/ Initialise
  \/ PreReduceStep
  \/ SelectPivotAndSwap
  \/ Rotate
  \/ RotateDegenerate
  \/ SkipRotate
  \/ ReduceStep
  \/ ReturnRelation
  \/ NextIteration
  \/ ReturnNone

Spec == Init /\ [][Next]_vars

-----------------------------------------------------------------------------
(* pslq: the claims *)

Phase(p) ==
  CASE p = "init" -> 0
    [] p = "prereduce" -> 1
    [] p = "pivot" -> 2
    [] p = "rotate" -> 3
    [] p = "reduce" -> 4
    [] p = "check" -> 5
    [] OTHER -> 6

\* C3: a run on n >= 2 values that gets through the initialisation ends, after
\* at most 100 passes of the main loop, and without an exception: REP never
\* passes 100, every step moves the run forward (a later pass, a later
\* position of the pass, or a later (i, j) of a reduction loop), a run that
\* has not ended can take a step, and a run that used up the 100 passes
\* returns None.
C3_BoundedSearch ==
  /\ [](rep <= 100 /\ (pc \in {"rotate", "reduce", "check"} => rep < 100))
  /\ [](ri <= n /\ rj >= 0)
  /\ [][\/ rep' > rep
        \/ rep' = rep /\ Phase(pc') > Phase(pc)
        \/ /\ rep' = rep /\ pc' = pc /\ pc \in {"prereduce", "reduce"}
           /\ (ri' > ri \/ (ri' = ri /\ rj' < rj))]_vars
  /\ [](pc \notin {"done", "raised"} => ENABLED Next)
  /\ []((pc = "raised" /\ n >= 2) => raisedAt \in {"init", "prereduce"})
  /\ []((pc = "done" /\ rep = 100) => (result.isNone /\ err = NoError))

C3_Witness == pc = "done" /\ rep = 100 /\ result.isNone /\ n >= 2

RECURSIVE DotProduct(_, _, _, _, _)
\* sum over k of a[i,k]*b[k,j], on the integers a/2^Prec and b/2^Prec
DotProduct(a, b, i, j, k) ==
  IF k = 0 THEN 0
  ELSE (a[i, k] \div (2 ^ Prec)) * (b[k, j] \div (2 ^ Prec))
         + DotProduct(a, b, i, j, k - 1)

RECURSIVE Determinant(_, _, _)
RECURSIVE CofactorSum(_, _, _, _)
\* the determinant of b/2^Prec on rows r..n and the columns cols
Determinant(b, r, cols) ==
  IF cols = {} THEN 1 ELSE CofactorSum(b, r, cols, cols)
CofactorSum(b, r, cols, todo) ==
  IF todo = {} THEN 0
  ELSE LET c == CHOOSE c \in todo : TRUE
           sign == IF Cardinality({d \in cols : d < c}) % 2 = 0 THEN 1 ELSE -1
       IN  sign * (b[r, c] \div (2 ^ Prec)) * Determinant(b, r + 1, cols \ {c})
             + CofactorSum(b, r, cols, todo \ {c})

\* C4: from the identity initialisation on, after every reduction step and
\* every exchange, each entry of A and of B is a multiple of 2^prec, no
\* 't*A >> prec' or 't*B >> prec' has dropped a bit, A*B is the identity and
\* det B is 1 or -1.
C4_ExactUnimodular ==
  (pc # "init" /\ n >= 1) =>
     /\ exact
     /\ t % (2 ^ Prec) = 0
     /\ \A p \in Idx(n) : A[p] % (2 ^ Prec) = 0 /\ B[p] % (2 ^ Prec) = 0
     /\ \A p \in Idx(n) :
          DotProduct(A, B, p[1], p[2], n) = (IF p[1] = p[2] THEN 1 ELSE 0)
     /\ Determinant(B, 1, 1..n) \in {1, -1}

C4_Witness ==
  /\ pc = "check" /\ rep >= 1 /\ n = 3
  /\ t # 0
  /\ \E p \in Idx(n) : p[1] # p[2] /\ A[p] # 0 /\ B[p] # 0

\* C6: no ZeroDivisionError leaves pslq from a reduction step, of the initial
\* reduction or of the main loop; a step that meets H[j,j] = 0 changes nothing
\* in y, H, A and B, and the run goes on and ends with a relation or None.
C6_ZeroPivotSkipped ==
  /\ []((pc = "raised" /\ err = "ZeroDivisionError") => raisedAt = "init")
  /\ [][(pc \in {"prereduce", "reduce"} /\ H[rj, rj] = 0)
          => (pc' \in {"prereduce", "pivot", "reduce", "check"}
              /\ err' = NoError
              /\ UNCHANGED <<y, H, A, B>>)]_vars
  /\ [](zeroPivot > 0 => (pc # "raised" /\ err = NoError))

C6_Witness == zeroPivot > 0 /\ pc = "done" /\ ~result.isNone

\* C7: with the pivot m <= n-2 and a rotation norm t0 of zero (H[m,m]^2 +
\* H[m,m+1]^2 below one unit of the fixed point) the run ends at once with
\* None: nothing is rotated or reduced, no candidate is looked at and no
\* further pass is made.
C7_DegenerateRotationEnds ==
  /\ [][(pc = "rotate" /\ m <= n - 2
          /\ H[m, m] * H[m, m] + H[m, m + 1] * H[m, m + 1] < 2 ^ Prec)
          => (pc' = "done" /\ result'.isNone /\ err' = NoError
              /\ UNCHANGED <<y, H, A, B, rep>>)]_vars
  /\ [][pc # "done"]_vars

C7_Witness ==
  /\ pc = "done" /\ result.isNone /\ rep < 100
  /\ n >= 3 /\ m <= n - 2
  /\ H[m, m] * H[m, m] + H[m, m + 1] * H[m, m + 1] < 2 ^ Prec

\* C8 as claimed: pslq on an empty vector returns None and raises nothing.
C8_EmptySilent ==
  (n = 0 /\ pc # "init") => (pc = "done" /\ result.isNone /\ err = NoError)

\* C8, amended: pslq on an empty vector raises (the AssertionError of
\* 'assert n >= 1'; with assertions stripped, the IndexError of s[1]) and
\* returns nothing.
C8_EmptyRaises ==
  (n = 0 /\ pc # "init") =>
     /\ pc = "raised"
     /\ err \in {"AssertionError", "IndexError"}
     /\ raisedAt = "init"

C8_Witness == n = 0 /\ pc = "raised"

\* C16 (as the specification states it): for every n >= 1, n = 1 included,
\* the pivot m of each iteration is in 1..n-1, no access to y, H, A or B
\* falls outside the indices the code has filled, and a run on one number
\* ends with a relation or None, never with an error.
C16_PivotInRange ==
  /\ (n >= 1 /\ m # 0) => (1 <= m /\ m <= n - 1)
  /\ n >= 1 => err \notin {"KeyError", "IndexError"}
  /\ (n = 1 /\ x[1] # 0) => pc # "raised"

\* C17: a relation returned by pslq has at least one nonzero coefficient.
C17_RelationNotZero ==
  (pc = "done" /\ ~result.isNone) => \E j \in 1..n : result.val[j] # 0

\* a relation with a single nonzero coefficient, a column of B after the
\* exchange at the pivot m, has been returned
C17_Witness ==
  /\ pc = "done" /\ ~result.isNone /\ n = 3 /\ m >= 1
  /\ Cardinality({j \in 1..n : result.val[j] # 0}) = 1

-----------------------------------------------------------------------------
(* The functions that raise mp.prec inside try/finally, and the functions  *)
(* that only read it.  A call in progress is a frame: its function, mp.prec *)
(* at its entry, its saved precision ('orig', or 'prec' in diff and diffc), *)
(* its position, the callback calls it still makes, whether its arguments   *)
(* pass its checks, and how it is about to end.                             *)

\* the most calls of the callback f that one call makes
MaxCalls == 2

\* the precisions a caller works at
UserPrecs == {53, 64}

Raisers == {"richardson_extrapolation", "shanks_extrapolation", "diff", "diffc",
            "polyroots", "sumrich", "sumsh", "chebyfit"}

Readers == {"pslq", "findpoly", "identify"}

\* the functions that call the callback f inside their try block
UsesCallback == Raisers \ {"polyroots"}

\* the functions whose checks come before 'orig = mp.prec': polyroots (lines
\* 246-250), sumrich (line 350) and sumsh (line 373)
ChecksFirst == {"polyroots", "sumrich", "sumsh"}

\* what the function sets mp.prec to, from the precision p it found; N is
\* the degree argument of chebyfit
RaisedPrec(fn, p, N) ==
  CASE fn \in {"richardson_extrapolation", "shanks_extrapolation", "sumrich", "sumsh"}
         -> 2 * p
    [] fn = "diff" -> 2 * (p + 5)
    [] fn \in {"diffc", "polyroots"} -> p + 10
    [] fn = "chebyfit" -> p + ISqrt(N) + 20

\* (mutant) the function leaves without its finally clause
RestoredPrecMissing(f) == mp_prec

\* finally: mp.prec = orig
RestoredPrec(f) == f.orig

Top == stack[Len(stack)]

Below == SubSeq(stack, 1, Len(stack) - 1)

SetTop(f) == [stack EXCEPT ![Len(stack)] = f]

NewFrame(fn, arg, k) ==
  [fn |-> fn, entry |-> mp_prec, orig |-> 0, stage |-> "called", left |-> k,
   arg |-> arg, out |-> "none", nested |-> FALSE]

\* the call on top has ended: its caller, if any, takes the result or the
\* exception, which sends it to its own finally clause
Leave(how) ==
  /\ last' = [fn |-> Top.fn, entry |-> Top.entry, exit |-> mp_prec', how |-> how,
              out |-> Top.out, depth |-> Len(stack)]
  /\ IF Len(stack) = 1 THEN stack' = << >>
     ELSE LET caller == stack[Len(stack) - 1]
          IN  stack' = [Below EXCEPT ![Len(stack) - 1] =
                          IF how = "raise" /\ caller.fn \in Raisers
                            THEN [caller EXCEPT !.stage = "finally", !.out = "raise"]
                          ELSE IF how = "raise"
                            THEN [caller EXCEPT !.stage = "raising"]
                          ELSE [caller EXCEPT !.stage = "body"]]

PrecOnly == UNCHANGED <<pslqVars, idVars, fpVars, fgVars>>

InitPrec ==
  /\ mp_prec \in UserPrecs
  /\ userPrec = mp_prec
  /\ stack = << >>
  /\ last = [fn |-> "none"]

\* a caller calls one of the functions
CallFunction ==
  /\ stack = << >>
  /\ \E fn \in Raisers \cup Readers, arg \in {"ok", "bad"}, k \in 0..MaxCalls :
       stack' = <<NewFrame(fn, arg, k)>>
  /\ UNCHANGED <<mp_prec, userPrec, last>>
  /\ PrecOnly

\* polyroots on a polynomial of degree 0 or less (return [] or ValueError),
\* sumrich and sumsh with b # inf (AssertionError): before 'orig = mp.prec'
LeaveBeforeTry ==
  /\ stack # << >>
  /\ Top.stage = "called" /\ Top.fn \in ChecksFirst /\ Top.arg = "bad"
  /\ mp_prec' = mp_prec
  /\ Leave("raise")
  /\ UNCHANGED userPrec
  /\ PrecOnly

\* 'orig = mp.prec' and, inside try, the new mp.prec
EnterTry ==
  /\ stack # << >>
  /\ Top.stage = "called" /\ Top.fn \in Raisers
  /\ ~(Top.fn \in ChecksFirst /\ Top.arg = "bad")
  /\ mp_prec' = RaisedPrec(Top.fn, mp_prec, Top.left)
  /\ stack' = SetTop([Top EXCEPT !.orig = mp_prec, !.stage = "body"])
  /\ UNCHANGED <<userPrec, last>>
  /\ PrecOnly

\* whether the function on top is at a call of f
AtCallback ==
  /\ stack # << >>
  /\ Top.stage = "body" /\ Top.fn \in UsesCallback /\ Top.left > 0
  /\ ~Top.nested
  /\ ~(Top.fn = "diff" /\ Top.arg = "bad")

\* f returns; f is the caller's code and may have set mp.prec itself
CallbackReturns ==
  /\ AtCallback
  /\ mp_prec' \in {mp_prec, mp_prec + 1}
  /\ stack' = SetTop([Top EXCEPT !.left = Top.left - 1])
  /\ UNCHANGED <<userPrec, last>>
  /\ PrecOnly

\* f raises: the exception leaves through the finally clause
CallbackRaises ==
  /\ AtCallback
  /\ stack' = SetTop([Top EXCEPT !.stage = "finally", !.out = "raise"])
  /\ UNCHANGED <<mp_prec, userPrec, last>>
  /\ PrecOnly

\* lines 48-51: 'except ZeroDivisionError: return table2[j-1]'
ShanksZeroDivision ==
  /\ stack # << >>
  /\ Top.stage = "body" /\ Top.fn = "shanks_extrapolation" /\ Top.left = 0
  /\ stack' = SetTop([Top EXCEPT !.stage = "finally", !.out = "zerodiv"])
  /\ UNCHANGED <<mp_prec, userPrec, last>>
  /\ PrecOnly

\* lines 112-113: raise ValueError("invalid difference direction")
DiffInvalidDirection ==
  /\ stack # << >>
  /\ Top.stage = "body" /\ Top.fn = "diff" /\ Top.arg = "bad"
  /\ stack' = SetTop([Top EXCEPT !.stage = "finally", !.out = "raise"])
  /\ UNCHANGED <<mp_prec, userPrec, last>>
  /\ PrecOnly

\* line 361, sumrich calls richardson_extrapolation; line 384, sumsh calls
\* shanks_extrapolation
NestedCall ==
  /\ stack # << >>
  /\ Top.stage = "body" /\ Top.fn \in {"sumrich", "sumsh"}
  /\ Top.left = 0 /\ ~Top.nested
  /\ \E k \in 0..MaxCalls :
       stack' = Append(SetTop([Top EXCEPT !.stage = "waiting", !.nested = TRUE]),
                       NewFrame(IF Top.fn = "sumrich" THEN "richardson_extrapolation"
                                ELSE "shanks_extrapolation", "ok", k))
  /\ UNCHANGED <<mp_prec, userPrec, last>>
  /\ PrecOnly

\* the try block runs to its end
BodyEnds ==
  /\ stack # << >>
  /\ Top.stage = "body" /\ Top.fn \in Raisers
  /\ Top.left = 0 \/ Top.fn = "polyroots"
  /\ Top.fn \in {"sumrich", "sumsh"} => Top.nested
  /\ ~(Top.fn = "diff" /\ Top.arg = "bad")
  /\ stack' = SetTop([Top EXCEPT !.stage = "finally", !.out = "return"])
  /\ UNCHANGED <<mp_prec, userPrec, last>>
  /\ PrecOnly

\* the finally clause, and the function is left
Finally ==
  /\ stack # << >>
  /\ Top.stage = "finally"
  /\ mp_prec' = RestoredPrec(Top)
  /\ Leave(IF Top.out = "raise" THEN "raise" ELSE "return")
  /\ UNCHANGED userPrec
  /\ PrecOnly

\* pslq, line 680 and 690: prec = mp.prec; prec += extra (a local variable);
\* findpoly and identify hold no precision of their own
ReaderStarts ==
  /\ stack # << >>
  /\ Top.stage = "called" /\ Top.fn \in Readers
  /\ stack' = SetTop([Top EXCEPT !.orig = IF Top.fn = "pslq" THEN mp_prec + 60 ELSE 0,
                                 !.stage = "body"])
  /\ UNCHANGED <<mp_prec, userPrec, last>>
  /\ PrecOnly

\* findpoly (line 794) and identify (lines 991, 997, 1023) call pslq;
\* identify (line 1020) calls findpoly
ReaderCalls ==
  /\ stack # << >>
  /\ Top.stage = "body" /\ Top.fn \in {"findpoly", "identify"} /\ Top.left > 0
  /\ \E callee \in {"pslq", "findpoly"} :
       /\ callee = "findpoly" => Top.fn = "identify"
       /\ stack' = Append(SetTop([Top EXCEPT !.stage = "waiting", !.left = Top.left - 1]),
                          NewFrame(callee, "ok", IF callee = "findpoly" THEN 1 ELSE 0))
  /\ UNCHANGED <<mp_prec, userPrec, last>>
  /\ PrecOnly

\* pslq, findpoly or identify returns, or an exception leaves it
ReaderEnds ==
  /\ stack # << >>
  /\ Top.stage \in {"body", "raising"} /\ Top.fn \in Readers
  /\ mp_prec' = mp_prec
  /\ \E how \in {"return", "raise"} :
       /\ Top.stage = "raising" => how = "raise"
       /\ Leave(how)
  /\ UNCHANGED userPrec
  /\ PrecOnly

NextPrec ==
  \/ CallFunction
  \/ LeaveBeforeTry
  \/ EnterTry
  \/ CallbackReturns
  \/ CallbackRaises
  \/ ShanksZeroDivision
  \/ DiffInvalidDirection
  \/ NestedCall
  \/ BodyEnds
  \/ Finally
  \/ ReaderStarts
  \/ ReaderCalls
  \/ ReaderEnds

\* pslq has not been called
PslqIdle ==
  /\ pc = "init" /\ n = 0 /\ x = NoVector /\ eps = 1
  /\ y = NoVector /\ s = NoVector
  /\ H = NoMatrix /\ A = NoMatrix /\ B = NoMatrix
  /\ rep = 0 /\ m = 0 /\ ri = 0 /\ rj = 0 /\ t = 0
  /\ exact = TRUE /\ zeroPivot = 0
  /\ result = None /\ err = NoError /\ raisedAt = NoError

InitCalls == InitPrec /\ PslqIdle /\ NoIdentify /\ NoFindpoly /\ NoFracgcd

SpecPrec == InitCalls /\ [][NextPrec]_vars

\* C5: every call of a function that sets mp.prec leaves it as it found it,
\* however the call ends (return, the early return of shanks_extrapolation on
\* ZeroDivisionError, an exception of the callback or of diff's direction
\* check, a nested call); between calls mp.prec is the caller's own; and no
\* step of pslq, findpoly or identify changes mp.prec.
C5_PrecisionRestored ==
  /\ [](last.fn # "none" => last.exit = last.entry)
  /\ [](stack = << >> => mp_prec = userPrec)
  /\ [][(stack # << >> /\ Top.fn \in Readers) => mp_prec' = mp_prec]_vars

C5_Witness ==
  /\ Len(stack) = 1 /\ Top.fn = "sumsh" /\ Top.stage = "body"
  /\ last.fn = "shanks_extrapolation" /\ last.depth = 2
  /\ last.how = "return" /\ last.out = "zerodiv"
  /\ last.entry = 2 * userPrec /\ mp_prec = 2 * userPrec

-----------------------------------------------------------------------------
(***************************************************************************)
(* findpoly and identify: values, catalog and formatting                   *)
(*                                                                         *)
(* A formula is a string.  A real number enters the model only through     *)
(* the tests the code makes on it: x is one of XVals (negative, zero, one, *)
(* another positive number), and a constant's value is 1 or a number that  *)
(* is not 1.  Display names hold none of the characters '+', '*' and '$'.  *)
(***************************************************************************)

\* (mutant) the remainder has the sign of x, as that of a truncating division
PyModTruncating(a, b) ==
  IF a >= 0 THEN a % Abs(b) ELSE -((-a) % Abs(b))

\* x % y of Python, y # 0: the remainder has the sign of y
PyMod(a, b) == a - b * FloorDiv(a, b)

RECURSIVE FracLoop(_, _)
\* the loop of fracgcd: 'while y: x, y = y, x % y'
FracLoop(a, b) == IF b = 0 THEN a ELSE FracLoop(b, PyMod(a, b))

\* fracgcd(p, q), q # 0: an integer (int = TRUE) or the pair (p, q)
fracgcd(p, q) ==
  LET g  == FracLoop(p, q)
      p2 == IF g # 1 THEN FloorDiv(p, g) ELSE p
      q2 == IF g # 1 THEN FloorDiv(q, g) ELSE q
  IN  IF q2 = 1 THEN [int |-> TRUE, p |-> p2, q |-> 1]
      ELSE [int |-> FALSE, p |-> p2, q |-> q2]

RECURSIVE Join(_, _)
\* sep.join(parts)
Join(parts, sep) ==
  IF parts = << >> THEN ""
  ELSE IF Len(parts) = 1 THEN parts[1]
  ELSE parts[1] \o sep \o Join(Tail(parts), sep)

\* the indices i of r[1:] with a nonzero coefficient, in order
RECURSIVE NonZeroFrom(_, _)
NonZeroFrom(r, i) ==
  IF i > Len(r) THEN << >>
  ELSE IF r[i] # 0 THEN <<i>> \o NonZeroFrom(r, i + 1)
  ELSE NonZeroFrom(r, i + 1)

\* pslqstring, line 831: 'return s or "0"'
OrZero(str) == IF str = "" THEN "0" ELSE str

\* (mutant) a coefficient 1 in front of a named constant is left out
LinearTermUnitDropped(r, names, i) ==
  LET z  == fracgcd(-r[i], r[1])
      cs == IF names[i - 1] = "1" THEN "" ELSE "*" \o names[i - 1]
  IN  IF z.int
        THEN IF z.p = 1 /\ cs # "" THEN names[i - 1]
             ELSE IF z.p > 0 THEN ToString(z.p) \o cs
             ELSE "(" \o ToString(z.p) \o ")" \o cs
      ELSE "(" \o ToString(z.p) \o "/" \o ToString(z.q) \o ")" \o cs

\* pslqstring, lines 815-828: the term of coefficient r[i] (i >= 2, r[1] is
\* the code's r[0]) and constant names[i - 1]
LinearTerm(r, names, i) ==
  LET z  == fracgcd(-r[i], r[1])
      cs == IF names[i - 1] = "1" THEN "" ELSE "*" \o names[i - 1]
  IN  IF z.int
        THEN IF z.p > 0 THEN ToString(z.p) \o cs
             ELSE "(" \o ToString(z.p) \o ")" \o cs
      ELSE "(" \o ToString(z.p) \o "/" \o ToString(z.q) \o ")" \o cs

\* pslqstring(r, constants); names[i] is constants[i][1]
pslqstring(r, names) ==
  LET used  == NonZeroFrom(r, 2)
      terms == [k \in 1..Len(used) |-> LinearTerm(r, names, used[k])]
      sum   == Join(terms, " + ")
      \* '+' in s or '*' in s
      paren == Len(used) >= 2 \/ \E k \in 1..Len(used) : names[used[k] - 1] # "1"
  IN  OrZero(IF paren THEN "(" \o sum \o ")" ELSE sum)

\* prodstring, lines 840-849: the factor of coefficient r[i]
ProductFactor(r, names, i) ==
  LET z  == fracgcd(-r[i], r[1])
      cs == names[i - 1]
  IN  IF z.int
        THEN IF Abs(z.p) = 1 THEN cs ELSE cs \o "**" \o ToString(Abs(z.p))
      ELSE cs \o "**(" \o ToString(Abs(z.p)) \o "/" \o ToString(z.q) \o ")"

\* [num, den][z < 0]: whether the factor of r[i] goes to the denominator
InDenominator(r, i) == fracgcd(-r[i], r[1]).p < 0

RECURSIVE Select(_, _, _)
\* the entries of seq at which keep holds, in order
Select(seq, keep, i) ==
  IF i > Len(seq) THEN << >>
  ELSE IF keep[i] THEN <<seq[i]>> \o Select(seq, keep, i + 1)
  ELSE Select(seq, keep, i + 1)

\* prodstring(r, constants): a string, or None when the relation has no
\* nonzero coefficient after the first (the function ends without a return)
prodstring(r, names) ==
  LET used    == NonZeroFrom(r, 2)
      factors == [k \in 1..Len(used) |-> ProductFactor(r, names, used[k])]
      below   == [k \in 1..Len(used) |-> InDenominator(r, used[k])]
      above   == [k \in 1..Len(used) |-> ~below[k]]
      num     == Join(Select(factors, above, 1), "*")
      den     == Join(Select(factors, below, 1), "*")
  IN  IF num # "" /\ den # "" THEN Some("(" \o num \o ")/(" \o den \o ")")
      ELSE IF num # "" THEN Some(num)
      ELSE IF den # "" THEN Some("1/(" \o den \o ")")
      ELSE None

\* quadraticstring(t, a, b, c); plus is the outcome of the code's test
\* abs(u1-t) < abs(u2-t) on the two roots, which the model does not compute
quadraticstring(plus, a0, b0, c0) ==
  LET a == IF c0 < 0 THEN -a0 ELSE a0
      b == IF c0 < 0 THEN -b0 ELSE b0
      c == IF c0 < 0 THEN -c0 ELSE c0
  IN  IF plus
        THEN IF b # 0
               THEN "((" \o ToString(-b) \o "+sqrt(" \o ToString(b * b - 4 * a * c)
                    \o "))/" \o ToString(2 * c) \o ")"
             ELSE "(sqrt(" \o ToString(-4 * a * c) \o ")/" \o ToString(2 * c) \o ")"
      ELSE IF b # 0
               THEN "((" \o ToString(-b) \o "-sqrt(" \o ToString(b * b - 4 * a * c)
                    \o "))/" \o ToString(2 * c) \o ")"
           ELSE "(-sqrt(" \o ToString(-4 * a * c) \o ")/" \o ToString(2 * c) \o ")"

\* the table 'transforms', lines 873-899: the inverse formula of each
\* transformation, cut into pieces at '$y', '$c' and at the '/' of '/$c', and
\* whether the transformation is redundant when c = 1
transforms == <<
  [inv |-> <<"$y", "/", "$c">>, red |-> FALSE],
  [inv |-> <<"$c", "*", "$y">>, red |-> TRUE],
  [inv |-> <<"$c", "/", "$y">>, red |-> FALSE],
  [inv |-> <<"sqrt(", "$y", ")", "/", "$c">>, red |-> FALSE],
  [inv |-> <<"$c", "*sqrt(", "$y", ")">>, red |-> TRUE],
  [inv |-> <<"$c", "/sqrt(", "$y", ")">>, red |-> FALSE],
  [inv |-> <<"sqrt(", "$y", ")/sqrt(", "$c", ")">>, red |-> TRUE],
  [inv |-> <<"sqrt(", "$c", ")*sqrt(", "$y", ")">>, red |-> TRUE],
  [inv |-> <<"sqrt(", "$c", ")/sqrt(", "$y", ")">>, red |-> TRUE],
  [inv |-> <<"$y", "**2", "/", "$c">>, red |-> FALSE],
  [inv |-> <<"$c", "*", "$y", "**2">>, red |-> TRUE],
  [inv |-> <<"$c", "/", "$y", "**2">>, red |-> FALSE],
  [inv |-> <<"$y", "**2", "/", "$c", "**2">>, red |-> TRUE],
  [inv |-> <<"$c", "**2*", "$y", "**2">>, red |-> TRUE],
  [inv |-> <<"$c", "**2/", "$y", "**2">>, red |-> TRUE],
  [inv |-> <<"log(", "$y", ")", "/", "$c">>, red |-> FALSE],
  [inv |-> <<"$c", "*log(", "$y", ")">>, red |-> TRUE],
  [inv |-> <<"$c", "/log(", "$y", ")">>, red |-> FALSE],
  [inv |-> <<"log(", "$y", "/", "$c", ")">>, red |-> TRUE],
  [inv |-> <<"log(", "$c", "*", "$y", ")">>, red |-> TRUE],
  [inv |-> <<"log(", "$c", "/", "$y", ")">>, red |-> FALSE],
  [inv |-> <<"exp(", "$y", ")", "/", "$c">>, red |-> FALSE],
  [inv |-> <<"$c", "*exp(", "$y", ")">>, red |-> TRUE],
  [inv |-> <<"$c", "/exp(", "$y", ")">>, red |-> FALSE],
  [inv |-> <<"exp(", "$y", "/", "$c", ")">>, red |-> TRUE],
  [inv |-> <<"exp(", "$c", "*", "$y", ")">>, red |-> TRUE],
  [inv |-> <<"exp(", "$c", "/", "$y", ")">>, red |-> FALSE]
>>

\* '/$c' in ftn
HasSlashC(ftn) == \E k \in 1..(Len(ftn) - 1) : ftn[k] = "/" /\ ftn[k + 1] = "$c"

RECURSIVE Substitute(_, _, _, _, _)
\* ftn.replace('$y', s).replace('$c', cn), and with drop the second
\* replacement is .replace('/$c', '')
Substitute(ftn, k, str, cn, drop) ==
  IF k > Len(ftn) THEN ""
  ELSE IF ftn[k] = "$y" THEN str \o Substitute(ftn, k + 1, str, cn, drop)
  ELSE IF drop /\ ftn[k] = "/" /\ k < Len(ftn) /\ ftn[k + 1] = "$c"
    THEN Substitute(ftn, k + 2, str, cn, drop)
  ELSE IF ~drop /\ ftn[k] = "$c" THEN cn \o Substitute(ftn, k + 1, str, cn, drop)
  ELSE ftn[k] \o Substitute(ftn, k + 1, str, cn, drop)

\* lines 1003-1006: the formula of a match s under transformation ftn and
\* constant name cn
Inverted(ftn, str, cn) ==
  IF cn = "1" /\ HasSlashC(ftn) THEN Substitute(ftn, 1, str, cn, TRUE)
  ELSE Substitute(ftn, 1, str, cn, FALSE)

RECURSIVE InsertByLen(_, _)
\* e put into the list sorted by length, behind the entries that are no longer
InsertByLen(sorted, e) ==
  IF sorted = << >> THEN <<e>>
  ELSE IF Len(sorted[1]) <= Len(e) THEN <<sorted[1]>> \o InsertByLen(Tail(sorted), e)
  ELSE <<e>> \o sorted

RECURSIVE SortedByLen(_)
\* sorted(solutions, key=len) on a list of strings: stable
SortedByLen(list) ==
  IF list = << >> THEN << >>
  ELSE InsertByLen(SortedByLen(SubSeq(list, 1, Len(list) - 1)), list[Len(list)])

-----------------------------------------------------------------------------
(***************************************************************************)
(* identify                                                                *)
(*                                                                         *)
(* The relation search is the environment of identify: at the places of    *)
(* the transformation table listed in id_hits, pslq may return any of a    *)
(* few relations or None; elsewhere it returns None.                       *)
(***************************************************************************)

\* the values of x: a negative number, zero, one, another positive number
XVals == {-2, 0, 1, 2}

\* catalog entries (value, name) after the conversion of lines 971-975; a
\* value other than 1 stands for a number that is not 1
ConstantOne   == [value |-> 1, name |-> "1"]
ConstantUnity == [value |-> 1, name |-> "unity"]
ConstantPi    == [value |-> 3, name |-> "pi"]

\* the catalogs a caller supplies
Catalogs == {<< >>, <<ConstantOne>>, <<ConstantUnity>>, <<ConstantPi>>}

\* the values of maxcoeff
MaxCoeffs == {1, 2}

\* the places <<transformation, constant>> at which a run may find relations
HitSets == {{}, {<<1, 1>>}, {<<1, 2>>, <<2, 2>>}, {<<4, 1>>, <<27, 2>>}}

\* a vector of L coefficients: the first, those between, the last
Vec(L, first, between, final) ==
  [k \in 1..L |-> IF k = 1 THEN first ELSE IF k = L THEN final ELSE between]

\* what a relation search on L numbers may return where there are relations
Relations(L) ==
  {None} \cup {Some(v) : v \in {Vec(L, 1, 0, 0), Vec(L, 1, 0, -1), Vec(L, -1, 0, 1),
                                Vec(L, -2, 0, 1), Vec(L, 1, 1, -1), Vec(L, 1, 0, 3),
                                Vec(L, 0, 0, 1)}}

\* what pslq([1, t, t**2]) may return where there are relations
QuadraticRelations ==
  {None} \cup {Some(v) : v \in {<<-2, 0, 1>>, <<-1, -1, 1>>, <<1, 2, -1>>,
                                <<1, 1, 0>>, <<1, -3, 1>>}}

\* a Python integer is compared with a Python string: never equal
PyNumber(v) == [kind |-> "number", v |-> v]
PyString(str) == [kind |-> "string", str |-> str]
PyEquals(a, b) ==
  /\ a.kind = b.kind
  /\ IF a.kind = "number" THEN a.v = b.v ELSE a.str = b.str

\* line 978: [value for (name, value) in constants]; the pairs are
\* (value, name), so the second component, bound to 'value', is the name
SecondComponents(constants) ==
  [i \in 1..Len(constants) |-> PyString(constants[i].name)]

\* line 978: 1 in [value for (name, value) in constants]
OneIsListed(constants) ==
  LET listed == SecondComponents(constants)
  IN  \E i \in 1..Len(listed) : PyEquals(PyNumber(1), listed[i])

\* lines 977-979
Normalised(constants) ==
  IF ~OneIsListed(constants) THEN <<ConstantOne>> \o constants ELSE constants

Names(constants) == [i \in 1..Len(constants) |-> constants[i].name]

\* max(abs(uw) for uw in r)
MaxAbs(r) == CHOOSE a \in {Abs(r[k]) : k \in 1..Len(r)} :
               \A k \in 1..Len(r) : Abs(r[k]) <= a

\* line 993
LinearAccepted(r, maxcoeff) ==
  /\ ~r.isNone
  /\ MaxAbs(r.val) <= maxcoeff
  /\ r.val[1] # 0

\* (mutant) the quadratic path does not look at maxcoeff
QuadraticAcceptedUnbounded(q, maxcoeff) ==
  /\ ~q.isNone
  /\ Len(q.val) = 3 /\ q.val[3] # 0

\* lines 998-1000
QuadraticAccepted(q, maxcoeff) ==
  /\ ~q.isNone
  /\ Len(q.val) = 3 /\ q.val[3] # 0
  /\ MaxAbs(q.val) <= maxcoeff

\* line 1024
ProductAccepted(r, maxcoeff) ==
  /\ ~r.isNone
  /\ MaxAbs(r.val) <= maxcoeff
  /\ r.val[1] # 0

\* a relation of pslq is turned down because of a coefficient above maxcoeff
Refused(r, maxcoeff) == ~r.isNone /\ MaxAbs(r.val) > maxcoeff

IdOnly == UNCHANGED <<pslqVars, precVars, fpVars, fgVars>>

InitIdentify ==
  /\ id_pc = "start"
  /\ id_x \in XVals
  /\ id_given \in Catalogs
  /\ id_full \in BOOLEAN
  /\ id_maxcoeff \in MaxCoeffs
  /\ id_quadratics \in BOOLEAN
  /\ id_hits \in HitSets
  /\ id_negative = FALSE
  /\ id_constants = << >>
  /\ id_ti = 0 /\ id_ci = 0
  /\ id_solutions = << >>
  /\ id_origin = << >>
  /\ id_refused = FALSE
  /\ id_result = None
  /\ id_err = NoError
  /\ id_did = "none"

\* identify returns res; a call made for a negative x hands it to its caller
IdReturns(res) ==
  /\ id_result' = res
  /\ id_pc' = IF id_negative THEN "inner" ELSE "done"

\* lines 949-979: the special cases of x and the catalog
IdEnter ==
  /\ id_pc = "start"
  /\ IF id_x = 0
       THEN /\ IdReturns(Some(IF id_full THEN <<"0">> ELSE "0"))
            /\ UNCHANGED <<id_x, id_negative, id_constants, id_ti, id_ci>>
     ELSE IF id_x < 0
       THEN /\ id_negative' = TRUE
            /\ id_x' = -id_x
            /\ UNCHANGED <<id_pc, id_constants, id_ti, id_ci, id_result>>
     ELSE /\ id_constants' = Normalised(id_given)
          /\ id_pc' = "search"
          /\ id_ti' = 1 /\ id_ci' = 1
          /\ UNCHANGED <<id_x, id_negative, id_result>>
  /\ id_did' = "enter"
  /\ UNCHANGED <<id_given, id_full, id_maxcoeff, id_quadratics, id_hits,
                 id_solutions, id_origin, id_refused, id_err>>
  /\ IdOnly

\* the next pair of the loops of lines 982-983
IdAdvance ==
  IF id_ci < Len(id_constants)
    THEN id_ci' = id_ci + 1 /\ UNCHANGED <<id_ti, id_pc>>
  ELSE IF id_ti < Len(transforms)
    THEN id_ti' = id_ti + 1 /\ id_ci' = 1 /\ UNCHANGED id_pc
  ELSE id_pc' = "fallback" /\ UNCHANGED <<id_ti, id_ci>>

\* addsolution(s) and 'if not full: return solutions[0]'
IdRecord(sol, path, rel) ==
  /\ id_solutions' = Append(id_solutions, sol)
  /\ id_origin' = Append(id_origin, [path |-> path, rel |-> rel])
  /\ IF ~id_full THEN IdReturns(id_solutions'[1]) ELSE UNCHANGED id_result

\* lines 984-1011: the body of the loops for transformation id_ti and
\* constant id_ci.  inRange is the outcome of the test of line 988 on t.
IdTransform ==
  /\ id_pc = "search"
  /\ LET ftn == transforms[id_ti].inv
         red == transforms[id_ti].red
         cn  == id_constants[id_ci].name
         hit == <<id_ti, id_ci>> \in id_hits
     IN  \/ /\ red /\ cn = "1"
            /\ IdAdvance
            /\ id_did' = "skip"
            /\ UNCHANGED <<id_solutions, id_origin, id_refused, id_result>>
         \/ /\ ~(red /\ cn = "1")
            /\ \E inRange \in BOOLEAN,
                  r \in IF hit THEN Relations(1 + Len(id_constants)) ELSE {None},
                  q \in IF hit THEN QuadraticRelations ELSE {None},
                  plus \in BOOLEAN :
                 LET linear    == LinearAccepted(r, id_maxcoeff)
                     quadratic == /\ ~linear /\ id_quadratics
                                  /\ QuadraticAccepted(q, id_maxcoeff)
                     str == IF linear THEN pslqstring(r.val, Names(id_constants))
                            ELSE quadraticstring(plus, q.val[1], q.val[2], q.val[3])
                 IN  /\ id_did' = IF inRange THEN "search" ELSE "skip"
                     /\ IF inRange /\ (linear \/ quadratic) /\ str # ""
                          THEN /\ IdRecord(Some(Inverted(ftn, str, cn)),
                                           IF linear THEN "linear" ELSE "quadratic",
                                           IF linear THEN r.val ELSE q.val)
                               /\ id_refused' = (id_refused \/ Refused(r, id_maxcoeff))
                               /\ IF id_full THEN IdAdvance
                                  ELSE UNCHANGED <<id_ti, id_ci>>
                        ELSE /\ IdAdvance
                             /\ id_refused' =
                                  (id_refused \/ (inRange /\ (Refused(r, id_maxcoeff)
                                     \/ (~linear /\ id_quadratics
                                         /\ Refused(q, id_maxcoeff)))))
                             /\ UNCHANGED <<id_solutions, id_origin, id_result>>
  /\ UNCHANGED <<id_x, id_given, id_full, id_maxcoeff, id_quadratics, id_hits,
                 id_negative, id_constants, id_err>>
  /\ IdOnly

\* which constants line 1020 keeps: a constant of value 1 has log(a) = 0 and
\* findpoly(0, 1) = [1, 0], so it is dropped; for another constant findpoly
\* decides
KeptMasks(constants) ==
  {mask \in [1..Len(constants) -> BOOLEAN] :
     \A i \in 1..Len(constants) : constants[i].value = 1 => ~mask[i]}

\* (mutant) the product formula is looked for only when nothing was found
FallbackRunsIfNoMatch == id_x # 1 /\ id_solutions = << >>

\* line 1014: 'if x != 1:'
FallbackRuns == id_x # 1

\* lines 1013-1026: the direct multiplicative formula
IdFallback ==
  /\ id_pc = "fallback"
  /\ id_did' = IF FallbackRuns THEN "product" ELSE "skip"
  /\ IF ~FallbackRuns
       THEN /\ id_pc' = "return"
            /\ UNCHANGED <<id_solutions, id_origin, id_refused, id_result>>
     ELSE \E mask \in KeptMasks(id_constants) :
            LET logs == <<"2", "3", "5", "7">> \o Select(Names(id_constants), mask, 1)
            IN  \E r \in Relations(1 + Len(logs)) :
                  IF ProductAccepted(r, id_maxcoeff)
                    THEN /\ IdRecord(prodstring(r.val, logs), "product", r.val)
                         /\ IF id_full THEN id_pc' = "return" ELSE TRUE
                         /\ UNCHANGED id_refused
                  ELSE /\ id_pc' = "return"
                       /\ id_refused' = (id_refused \/ Refused(r, id_maxcoeff))
                       /\ UNCHANGED <<id_solutions, id_origin, id_result>>
  /\ UNCHANGED <<id_x, id_given, id_full, id_maxcoeff, id_quadratics, id_hits,
                 id_negative, id_constants, id_ti, id_ci, id_err>>
  /\ IdOnly

\* len(s) fails on None
NoneAmong(list) == \E i \in 1..Len(list) : list[i].isNone

Values(list) == [i \in 1..Len(list) |-> list[i].val]

\* lines 1028-1031
IdReturn ==
  /\ id_pc = "return"
  /\ IF ~id_full THEN IdReturns(None) /\ UNCHANGED id_err
     ELSE IF NoneAmong(id_solutions)
       THEN id_pc' = "raised" /\ id_err' = "TypeError" /\ UNCHANGED id_result
     ELSE IdReturns(Some(SortedByLen(Values(id_solutions)))) /\ UNCHANGED id_err
  /\ id_did' = "return"
  /\ UNCHANGED <<id_x, id_given, id_full, id_maxcoeff, id_quadratics, id_hits,
                 id_negative, id_constants, id_ti, id_ci, id_solutions, id_origin,
                 id_refused>>
  /\ IdOnly

\* (mutant) the sign is put in front without the parentheses
NegatedBare(str) == "-" \o str

\* "-(%s)" % s
Negated(str) == "-(" \o str \o ")"

\* lines 957-963: the call for x < 0 has the result of identify(-x, ...)
IdNegate ==
  /\ id_pc = "inner"
  /\ id_pc' = "done"
  /\ id_result' =
       IF id_result.isNone THEN None
       ELSE IF id_full
         THEN Some([i \in 1..Len(id_result.val) |-> Negated(id_result.val[i])])
       ELSE Some(Negated(id_result.val))
  /\ id_did' = "negate"
  /\ UNCHANGED <<id_x, id_given, id_full, id_maxcoeff, id_quadratics, id_hits,
                 id_negative, id_constants, id_ti, id_ci, id_solutions, id_origin,
                 id_refused, id_err>>
  /\ IdOnly

NextIdentify ==
  \/ IdEnter
  \/ IdTransform
  \/ IdFallback
  \/ IdReturn
  \/ IdNegate

InitIdentifyCalls == InitIdentify /\ PslqIdle /\ NoCalls /\ NoFindpoly /\ NoFracgcd

SpecIdentify == InitIdentifyCalls /\ [][NextIdentify]_vars

\* the paths on which the recorded solutions were found
PathsTaken == {id_origin[i].path : i \in 1..Len(id_origin)}

\* C1: every formula identify collects or returns comes from a relation whose
\* coefficients are all at most maxcoeff in absolute value, on the linear,
\* the quadratic and the multiplicative path alike: each recorded solution has
\* such a relation behind it, and what is returned (for x # 0) is made of
\* the recorded solutions, as they are or negated.
C1_WithinMaxcoeff ==
  /\ Len(id_origin) = Len(id_solutions)
  /\ \A i \in 1..Len(id_origin) :
       /\ id_origin[i].path \in {"linear", "quadratic", "product"}
       /\ \A k \in 1..Len(id_origin[i].rel) :
            /\ id_origin[i].rel[k] <= id_maxcoeff
            /\ id_origin[i].rel[k] >= -id_maxcoeff
  /\ (id_pc \in {"inner", "done"} /\ ~id_result.isNone /\ id_x # 0) =>
       IF id_full
         THEN /\ Len(id_result.val) = Len(id_solutions)
              /\ \A i \in 1..Len(id_result.val) :
                   \E j \in 1..Len(id_solutions) :
                     /\ ~id_solutions[j].isNone
                     /\ id_result.val[i] \in {id_solutions[j].val,
                                              "-(" \o id_solutions[j].val \o ")"}
       ELSE /\ id_solutions # << >>
            /\ ~id_solutions[1].isNone
            /\ id_result.val \in {id_solutions[1].val,
                                   "-(" \o id_solutions[1].val \o ")"}

\* a full search has ended with a solution of each of the three paths, after
\* a relation with a coefficient above maxcoeff was turned down
C1_Witness ==
  /\ id_pc = "done" /\ id_full /\ id_refused
  /\ PathsTaken = {"linear", "quadratic", "product"}
  /\ ~id_result.isNone /\ Len(id_result.val) = 3

\* the call of identify on a positive x has returned
PositiveCallReturned ==
  /\ id_x > 0
  /\ id_pc = "inner" \/ (id_pc = "done" /\ ~id_negative)

\* every place of the loops over transforms and constants has been visited
LoopsExhausted == id_ti = Len(transforms) /\ id_ci = Len(id_constants)

\* C11 (as the specification states it): with full=False and x > 0 identify
\* returns the formula of the first match and makes no relation search after
\* it, and returns None only when the loops are exhausted and neither they nor
\* the product search gave a match; with full=True every search ends by
\* returning the list of all matches.
C11_FirstMatchOrAll ==
  /\ [][(~id_full /\ id_solutions # << >>) => id_did' \notin {"search", "product"}]_vars
  /\ []((~id_full /\ PositiveCallReturned) =>
         IF id_result.isNone
           THEN id_solutions = << >> /\ LoopsExhausted
         ELSE Len(id_solutions) = 1 /\ id_result = id_solutions[1])
  /\ [](id_full /\ id_x > 0 => id_pc # "raised")
  /\ []((id_full /\ PositiveCallReturned) =>
         /\ Len(id_result.val) = Len(id_solutions)
         /\ \A i \in 1..Len(id_solutions) :
              \E j \in 1..Len(id_result.val) : Some(id_result.val[j]) = id_solutions[i])

\* the solutions recorded in the loops over transforms and constants
TransformMatches == {i \in 1..Len(id_origin) : id_origin[i].path # "product"}

\* C12 (as the specification states it): the product search runs only when
\* x # 1 and no transform and constant gave a match, whatever full is.
C12_FallbackOnlyWithoutMatch ==
  id_did = "product" => (id_x # 1 /\ TransformMatches = {})

\* C12 (amended): the product search runs exactly when the loops over
\* transforms and constants have ended without a return and x # 1; with
\* full=False that is when they gave no match, with full=True it runs whether
\* or not matches were recorded.
C12_FallbackUnlessOne ==
  /\ [](id_did = "product" =>
          (id_x # 1 /\ LoopsExhausted /\ (~id_full => TransformMatches = {})))
  /\ [][id_pc = "fallback" => (id_did' = "product" <=> id_x # 1)]_vars
  /\ [](id_pc = "fallback" => (LoopsExhausted /\ (~id_full => id_solutions = << >>)))

\* with full=True the product search has run, and given a match, after a
\* transform had given one
C12_Witness ==
  /\ id_did = "product" /\ id_full
  /\ Len(id_origin) = 2
  /\ id_origin[1].path = "linear" /\ id_origin[2].path = "product"

\* C18 (as the specification states it): every recorded solution is a
\* non-empty string, so the sort of the list returned with full=True never
\* fails.
C18_SolutionsAreStrings ==
  /\ \A i \in 1..Len(id_solutions) :
       ~id_solutions[i].isNone /\ id_solutions[i].val # ""
  /\ id_err = NoError

\* C13: for x < 0 identify calls itself on -x with the other arguments as
\* they are, and returns that call's result with each formula s replaced by
\* '-(s)': a string becomes one string, a list becomes a list of the same
\* length and order, None stays None.
C13_NegativeWrapsPositive ==
  /\ [][(id_pc = "start" /\ id_x < 0) =>
          /\ id_negative' /\ id_x' = -id_x /\ id_pc' = "start"
          /\ UNCHANGED <<id_given, id_full, id_maxcoeff, id_quadratics>>]_vars
  /\ [][id_pc = "inner" =>
          /\ id_pc' = "done"
          /\ IF id_result.isNone THEN id_result'.isNone
             ELSE IF id_full
               THEN /\ ~id_result'.isNone
                    /\ Len(id_result'.val) = Len(id_result.val)
                    /\ \A i \in 1..Len(id_result.val) :
                         id_result'.val[i] = "-(" \o id_result.val[i] \o ")"
             ELSE id_result' = Some("-(" \o id_result.val \o ")")]_vars
  /\ [](id_pc = "inner" => (id_negative /\ id_x > 0))

\* a negative x with full=True has returned two negated formulas
C13_Witness ==
  /\ id_did = "negate" /\ id_negative /\ id_full
  /\ ~id_result.isNone
  /\ Len(id_result.val) = 2
  /\ \A i \in 1..2 : id_result.val[i] = "-(" \o id_solutions[i].val \o ")"

\* identify(x, ['pi']) with full=False has returned at the first transform
\* and the constant '1' (t = x*1), on a relation +/-[1, 0, -1] of [t, 1, pi]:
\* x is pi
PiIdentified ==
  /\ id_pc = "done" /\ ~id_full /\ ~id_negative
  /\ id_given = <<ConstantPi>>
  /\ id_ti = 1 /\ id_ci = 1
  /\ Len(id_origin) = 1
  /\ id_origin[1].path = "linear"
  /\ id_origin[1].rel \in {<<1, 0, -1>>, <<-1, 0, 1>>}

\* C15 (as the specification states it): identify of pi with the one catalog
\* constant 'pi' returns exactly the string "pi", for either relation.
C15_PiReturnsPi == PiIdentified => id_result = Some("pi")

\* C15 (amended): identify of pi with the one catalog constant 'pi' returns
\* exactly the string "(1*pi)", for either relation: the coefficient 1 is
\* written out and a formula with a '*' is put in parentheses.
C15_PiReturnsOneTimesPi == PiIdentified => id_result = Some("(1*pi)")

\* the relation [-1, 0, 1] was found and "(1*pi)" returned
C15_Witness ==
  /\ PiIdentified
  /\ id_origin[1].rel = <<-1, 0, 1>>
  /\ id_result = Some("(1*pi)")

\* the catalog has been normalised
CatalogReady == id_ti > 0

\* the supplied constants of numeric value 1
SuppliedOnes == {i \in 1..Len(id_given) : id_given[i].value = 1}

\* C9 (as the specification states it): (1, '1') is prepended if and only if
\* no supplied constant has the value 1, a catalog that has one is used as
\* supplied, and the catalog searched holds at most one entry of value 1.
C9_OnePrependedIfAbsent ==
  CatalogReady =>
    /\ id_constants = IF SuppliedOnes = {} THEN <<ConstantOne>> \o id_given
                      ELSE id_given
    /\ Cardinality({i \in 1..Len(id_constants) : id_constants[i].value = 1}) <= 1

-----------------------------------------------------------------------------
(* findpoly *)

\* the largest degree n a caller asks for
MaxDegree == 3

\* the coefficients of the relations pslq may return to findpoly
PolyCoeffs == {-1, 0, 2}

\* what pslq(xs) may return on a list of L numbers: None or L integers, not
\* all zero
PolyRelations(L) ==
  {None} \cup {Some(v) : v \in {w \in [1..L -> PolyCoeffs] : \E k \in 1..L : w[k] # 0}}

\* (mutant) the relation is returned in the order pslq gave it
NotReversed(a) == a

\* a[::-1]
Reversed(a) == [k \in 1..Len(a) |-> a[Len(a) + 1 - k]]

FpOnly == UNCHANGED <<pslqVars, precVars, idVars, fgVars>>

InitFindpoly ==
  /\ fp_pc = "start"
  /\ fp_x \in XVals
  /\ fp_n \in -1..MaxDegree
  /\ fp_i = 0
  /\ fp_calls = << >>
  /\ fp_result = None

\* lines 789-791
FpEnter ==
  /\ fp_pc = "start"
  /\ IF fp_x = 0
       THEN fp_result' = Some(<<1, 0>>) /\ fp_pc' = "done" /\ UNCHANGED fp_i
     ELSE fp_pc' = "loop" /\ fp_i' = 1 /\ UNCHANGED fp_result
  /\ UNCHANGED <<fp_x, fp_n, fp_calls>>
  /\ FpOnly

\* lines 793-796: one pass of the loop; xs has fp_i + 1 entries
FpTry ==
  /\ fp_pc = "loop"
  /\ fp_i <= fp_n
  /\ \E a \in PolyRelations(fp_i + 1) :
       /\ fp_calls' = Append(fp_calls, [len |-> fp_i + 1, a |-> a])
       /\ IF ~a.isNone
            THEN fp_result' = Some(Reversed(a.val)) /\ fp_pc' = "done" /\ UNCHANGED fp_i
          ELSE fp_i' = fp_i + 1 /\ UNCHANGED <<fp_result, fp_pc>>
  /\ UNCHANGED <<fp_x, fp_n>>
  /\ FpOnly

\* the loop is over and the function ends without a return statement
FpExhausted ==
  /\ fp_pc = "loop"
  /\ fp_i > fp_n
  /\ fp_pc' = "done"
  /\ fp_result' = None
  /\ UNCHANGED <<fp_x, fp_n, fp_i, fp_calls>>
  /\ FpOnly

NextFindpoly ==
  \/ FpEnter
  \/ FpTry
  \/ FpExhausted

InitFindpolyCalls == InitFindpoly /\ PslqIdle /\ NoCalls /\ NoIdentify /\ NoFracgcd

SpecFindpoly == InitFindpolyCalls /\ [][NextFindpoly]_vars

\* the calls of pslq that returned a relation
Successes == {j \in 1..Len(fp_calls) : ~fp_calls[j].a.isNone}

\* C10: for x # 0 findpoly calls pslq on [1, x, ..., x^k] for k = 1, 2, ...
\* in that order and at most up to k = n, makes no call after one that
\* returned a relation, and returns that relation reversed; it returns None
\* exactly when every k in 1..n was tried and gave None (no call for n < 1);
\* for x = 0 it returns [1, 0] without a call.
C10_FirstRelationReversed ==
  /\ \A j \in 1..Len(fp_calls) : fp_calls[j].len = j + 1
  /\ \A j \in Successes : j = Len(fp_calls)
  /\ Len(fp_calls) <= (IF fp_n > 0 THEN fp_n ELSE 0)
  /\ fp_x = 0 => fp_calls = << >>
  /\ fp_pc = "done" =>
       IF fp_x = 0 THEN fp_result = Some(<<1, 0>>)
       ELSE IF Successes # {}
         THEN LET a == fp_calls[Len(fp_calls)].a.val
              IN  /\ ~fp_result.isNone
                  /\ Len(fp_result.val) = Len(fp_calls) + 1
                  /\ \A k \in 1..Len(a) : fp_result.val[k] = a[Len(a) + 1 - k]
       ELSE /\ fp_result.isNone
            /\ Len(fp_calls) = (IF fp_n > 0 THEN fp_n ELSE 0)

\* degree 1 gave nothing, degree 2 gave [-1, 0, 2], and findpoly returned
\* [2, 0, -1] although n = 3
C10_Witness ==
  /\ fp_pc = "done" /\ fp_n = 3
  /\ Len(fp_calls) = 2
  /\ fp_calls[2].a = Some(<<-1, 0, 2>>)
  /\ fp_result = Some(<<2, 0, -1>>)

-----------------------------------------------------------------------------
(***************************************************************************)
(* fracgcd (lines 798-807) on its own: a call with integers p and q, q # 0 *)
(***************************************************************************)

\* the largest absolute value of an argument
MaxFrac == 8

FracArgs == (-MaxFrac)..MaxFrac

FgOnly == UNCHANGED <<pslqVars, precVars, idVars, fpVars>>

\* the call fracgcd(p, q) is about to run
InitFracgcd ==
  /\ fg_pc = "call"
  /\ fg_p \in FracArgs
  /\ fg_q \in FracArgs \ {0}
  /\ fg_out = None

\* lines 799-807: the body of fracgcd
FgReturn ==
  /\ fg_pc = "call"
  /\ fg_out' = Some(fracgcd(fg_p, fg_q))
  /\ fg_pc' = "done"
  /\ UNCHANGED <<fg_p, fg_q>>
  /\ FgOnly

NextFracgcd == FgReturn

InitFracgcdCalls == InitFracgcd /\ PslqIdle /\ NoCalls /\ NoIdentify /\ NoFindpoly

SpecFracgcd == InitFracgcdCalls /\ [][NextFracgcd]_vars

\* d divides v
Divides(d, v) == \E k \in (-Abs(v))..Abs(v) : k * d = v

\* a and b, both at least 0 and not both 0, have no common divisor above 1
Coprime(a, b) == \A d \in 2..(a + b) : ~(Divides(d, a) /\ Divides(d, b))

\* C14: for q # 0 and any signs of p and q, fracgcd(p, q) returns the integer
\* p/q when q divides p, and otherwise a pair (p', q') with p'*q = p*q',
\* gcd(|p'|, q') = 1 and q' > 0.
C14_FracgcdLowestTerms ==
  fg_pc = "done" =>
    LET out == fg_out.val
    IN  IF Divides(fg_q, fg_p)
          THEN out.int /\ out.p * fg_q = fg_p
        ELSE /\ ~out.int
             /\ out.p * fg_q = fg_p * out.q
             /\ out.q > 0
             /\ Coprime(Abs(out.p), out.q)

\* fracgcd(6, -4) has returned (-3, 2)
C14_Witness ==
  /\ fg_pc = "done" /\ fg_p = 6 /\ fg_q = -4
  /\ fg_out = Some([int |-> FALSE, p |-> -3, q |-> 2])

====
